---------------------------- MODULE Spec2Model ----------------------------
(***************************************************************************)
(* Tabular policy iteration (rl_exercises/week_2/policy_iteration.py):     *)
(* policy_evaluation, policy_improvement, policy_iteration and the         *)
(* PolicyIteration agent (update_agent, save, load).                       *)
(*                                                                         *)
(* Numbers.  The code computes in IEEE doubles.  A non-negative double x   *)
(* is held as the record [w, h, l] with                                    *)
(*     x = w + h / 2^LimbBits + l / 2^(2*LimbBits),  0 <= h, l < 2^LimbBits*)
(* Float addition and subtraction round the exact result to MantBits       *)
(* significant bits, ties to even, as the hardware does; products by       *)
(* 0, 1/2 and 1 are exact, as they are in a double.  The MDPs drawn have   *)
(* integer rewards, transition probabilities k/TDen and a discount         *)
(* num/den, with TDen and den powers of two, so every double the code      *)
(* computes is a multiple of 2^-(2*LimbBits) and is held exactly.          *)
(* epsilon is the argument of policy_iteration and policy_evaluation,      *)
(* 1e-8 unless the caller passes another value; update_agent passes none.  *)
(* Arrays are functions on 0..n-1, as numpy indexes them.                  *)
(***************************************************************************)
EXTENDS Integers, Sequences, FiniteSets

\* ------------------------------------------------------------- bounds
MaxReward == 2      \* rewards R_sa[s,a] are drawn from 0..MaxReward
MaxSweeps == 32     \* sweeps of one policy_evaluation call that are followed
MaxRounds == 6      \* rounds of one policy_iteration call that are followed

\* ---------------------------------------------------- sizes and scale
NS   == 2           \* n_obs: number of states
NA   == 2           \* n_actions: number of actions
TDen == 2           \* T[s,a,s'] is a multiple of 1/TDen
LimbBits == 30      \* bits of one limb of the fraction of a float value
MantBits == 53      \* significant bits of a float64

States  == 0 .. (NS - 1)
Actions == 0 .. (NA - 1)
Limb    == 2 ^ LimbBits

None   == << >>      \* Python's None (no array of the model is empty)
NoFile == << >>      \* the path self.filename does not exist

VARIABLES
    T,              \* env.get_transition_matrix(): T[s][a][s'] in units of 1/TDen
    R_sa,           \* env.get_reward_per_action(): R_sa[s][a]
    gamma,          \* self.gamma, the record [num, den] for num/den
    epsilon,        \* the epsilon argument, the record [num, den] for num/den
    self_pi,        \* self.pi
    self_Q,         \* self.Q
    self_steps,     \* self.steps
    policy_fitted,  \* self.policy_fitted
    file,           \* contents of the file self.filename, or NoFile
    outcome,        \* how the last agent call ended
    pc,             \* position of the running policy_iteration call
    pi,             \* policy_iteration: pi
    V,              \* policy_evaluation: V
    sweeps,         \* policy_evaluation: completed passes that assigned V
    Q,              \* policy_iteration: Q
    pi_new,         \* policy_iteration: pi_new
    steps,          \* policy_iteration: steps
    hist            \* the rounds completed so far: <<[pi, V], ...>>

vars == <<T, R_sa, gamma, epsilon, self_pi, self_Q, self_steps, policy_fitted,
          file, outcome, pc, pi, V, sweeps, Q, pi_new, steps, hist>>
mdp   == <<T, R_sa, gamma, epsilon>>
agent == <<self_pi, self_Q, self_steps, policy_fitted>>
frame == <<pc, pi, V, sweeps, Q, pi_new, steps, hist>>

\* ------------------------------------------------------------ numbers
Real(n) == [w |-> n, h |-> 0, l |-> 0]
Zero    == Real(0)

\* the record of w + h/Limb + l/Limb^2 for 0 <= h, l < 2 * Limb
Norm(w, h, l) ==
    LET h2 == h + l \div Limb
    IN  [w |-> w + h2 \div Limb, h |-> h2 % Limb, l |-> l % Limb]

\* x < y
Less(x, y) ==
    \/ x.w < y.w
    \/ x.w = y.w /\ x.h < y.h
    \/ x.w = y.w /\ x.h = y.h /\ x.l < y.l

\* floor(log2(n)) for 1 <= n < 2^LimbBits
Log2(n) == CHOOSE e \in 0 .. (LimbBits - 1) : n \div (2 ^ e) = 1

\* the exponent of x # 0: 2^Exponent(x) <= x < 2^(Exponent(x) + 1)
Exponent(x) ==
    IF x.w > 0 THEN Log2(x.w)
    ELSE IF x.h > 0 THEN Log2(x.h) - LimbBits
    ELSE Log2(x.l) - 2 * LimbBits

\* x rounded to MantBits significant bits, ties to even
Round(x) ==
    LET drop == IF x = Zero THEN 0
                ELSE Exponent(x) - (MantBits - 1) + 2 * LimbBits
    IN  IF drop <= 0 THEN x
        ELSE LET ulp  == 2 ^ drop
                 rest == x.l % ulp
                 keep == x.l - rest
                 up   == \/ 2 * rest > ulp
                         \/ 2 * rest = ulp /\ (keep \div ulp) % 2 = 1
             IN  Norm(x.w, x.h, IF up THEN keep + ulp ELSE keep)

\* x + y in real numbers
Plus(x, y) == Norm(x.w + y.w, x.h + y.h, x.l + y.l)

\* x - y in real numbers, for y <= x
Minus(x, y) ==
    Norm(x.w - y.w - 1, (x.h - y.h) + (Limb - 1), (x.l - y.l) + Limb)

\* the float x + y
Add(x, y) == Round(Plus(x, y))

\* the float abs(x - y)
AbsDiff(x, y) == IF Less(x, y) THEN Round(Minus(y, x)) ELSE Round(Minus(x, y))

\* n * x in real numbers, for an integer n >= 0
RECURSIVE MulBy(_, _)
MulBy(n, x) == IF n = 0 THEN Zero ELSE Plus(x, MulBy(n - 1, x))

\* x / d for a power of two d <= Limb
DivBy(d, x) ==
    [w |-> x.w \div d,
     h |-> (x.w % d) * (Limb \div d) + x.h \div d,
     l |-> (x.h % d) * (Limb \div d) + x.l \div d]

\* the float (num/den) * x, for num/den one of 0, 1/2, 1 (an exact product)
Times(num, den, x) == DivBy(den, MulBy(num, x))

\* k binary digits of r/den, for 0 <= r < den and k a multiple of 3, and
\* the remainder left (three digits a step)
RECURSIVE Digits(_, _, _)
Digits(r, den, k) ==
    IF k = 0 THEN [q |-> 0, r |-> r]
    ELSE LET p == Digits(r, den, k - 3)
         IN  [q |-> 8 * p.q + (8 * p.r) \div den, r |-> (8 * p.r) % den]

\* x < num/den.  The double nearest to 1e-8 and 1/10^8 have the same
\* multiples of 2^-(2*LimbBits) below them.
Below(x, q) ==
    LET hi == Digits(q.num % q.den, q.den, LimbBits)
    IN  IF x.w # q.num \div q.den THEN x.w < q.num \div q.den
        ELSE IF x.h # hi.q THEN x.h < hi.q
        ELSE LET lo == Digits(hi.r, q.den, LimbBits)
             IN  x.l < lo.q \/ (x.l = lo.q /\ lo.r # 0)

\* ------------------------------------------------------- input domains
RECURSIVE SumTo(_, _)
SumTo(f, n) == IF n < 0 THEN 0 ELSE f[n] + SumTo(f, n - 1)

RowSum(row) == SumTo(row, NS - 1)
AllRows   == [States -> 0 .. TDen]
ProbRows  == {row \in AllRows : RowSum(row) = TDen}
DetRows   == {row \in ProbRows : \E s \in States : row[s] = TDen}
BadRow    == [s \in States |-> 0]

ValidTs   == [States -> [Actions -> ProbRows]]
DetTs     == [States -> [Actions -> DetRows]]
MalformedTs == {[t EXCEPT ![0][1] = BadRow] : t \in DetTs}
Rewards   == [States -> [Actions -> 0 .. MaxReward]]
EndRewards == [States -> [Actions -> {0, MaxReward}]]
Policies  == [States -> Actions]
Half      == [num |-> 1, den |-> 2]
One       == [num |-> 1, den |-> 1]
EpsDefault == [num |-> 1, den |-> 100000000]
EpsCoarse  == [num |-> 1, den |-> 4]

ZerosPi == [s \in States |-> 0]
ZerosV  == [s \in States |-> Zero]
ZerosQ  == [s \in States |-> [a \in Actions |-> Zero]]

\* ------------------------------------------------------ pure functions
\* T[s, a, s_next] * (R_sa[s, a] + gamma * V[s_next])
Term(s, a, s_next, v) ==
    Times(T[s][a][s_next], TDen,
          Add(Real(R_sa[s][a]), Times(gamma.num, gamma.den, v[s_next])))

\* Python's sum(...) of the terms for s_next = 0 .. n
RECURSIVE SumTerms(_, _, _, _)
SumTerms(s, a, v, n) ==
    IF n < 0 THEN Zero ELSE Add(SumTerms(s, a, v, n - 1), Term(s, a, n, v))

\* sum(T[s,a,s'] * (R_sa[s,a] + gamma*V[s']) for s' in range(nS))
Backup(s, a, v) == SumTerms(s, a, v, NS - 1)

\* one pass of the for loop of policy_evaluation: V_new from the snapshot v
RECURSIVE SweepInPlaceFrom(_, _, _)
SweepInPlaceFrom(p, v, s) ==
    IF s > NS - 1 THEN v
    ELSE SweepInPlaceFrom(p, [v EXCEPT ![s] = Backup(s, p[s], v)], s + 1)

SweepInPlace(p, v) == SweepInPlaceFrom(p, v, 0)

Sweep(p, v) == [s \in States |-> Backup(s, p[s], v)]

\* np.max(np.abs(V_new - V)) over the states 0 .. n
RECURSIVE MaxAbsDiffTo(_, _, _)
MaxAbsDiffTo(v_new, v, n) ==
    IF n = 0 THEN AbsDiff(v_new[0], v[0])
    ELSE LET m == MaxAbsDiffTo(v_new, v, n - 1)
             d == AbsDiff(v_new[n], v[n])
         IN  IF Less(m, d) THEN d ELSE m

\* np.max(np.abs(V_new - V))
MaxAbsDiff(v_new, v) == MaxAbsDiffTo(v_new, v, NS - 1)

\* np.max(np.abs(V_new - V)) < epsilon
Converged(v_new, v) == Below(MaxAbsDiff(v_new, v), epsilon)

\* the double loop of policy_improvement
QTable(v) == [s \in States |-> [a \in Actions |-> Backup(s, a, v)]]

\* np.argmax over one row: scan left to right, keep the first maximum
RECURSIVE ArgMaxScanLast(_, _, _)
ArgMaxScanLast(row, a, best) ==
    IF a > NA - 1 THEN best
    ELSE ArgMaxScanLast(row, a + 1, IF ~Less(row[a], row[best]) THEN a ELSE best)

RECURSIVE ArgMaxScan(_, _, _)
ArgMaxScan(row, a, best) ==
    IF a > NA - 1 THEN best
    ELSE ArgMaxScan(row, a + 1, IF Less(row[best], row[a]) THEN a ELSE best)

ArgMaxLast(row) == ArgMaxScanLast(row, 1, 0)

ArgMax(row) == ArgMaxScan(row, 1, 0)

\* np.argmax(Q, axis=1)
Greedy(q) == [s \in States |-> ArgMax(q[s])]

\* np.array_equal(pi, pi_new)
ArrayEqualAny(p, q) == \E s \in States : p[s] = q[s]

ArrayEqual(p, q) == p = q

\* ------------------------------------------------ policy_iteration loop
\* entry of policy_evaluation: V = np.zeros(nS)
EnterEvaluation ==
    /\ pc' = "eval"
    /\ V' = ZerosV
    /\ sweeps' = 0

\* one pass of the while loop of policy_evaluation
EvalSweep ==
    /\ pc = "eval"
    /\ LET V_new == Sweep(pi, V) IN
         IF Converged(V_new, V)
             THEN /\ pc' = "improve"
                  /\ UNCHANGED <<V, sweeps>>
             ELSE /\ sweeps < MaxSweeps
                  /\ V' = V_new
                  /\ sweeps' = sweeps + 1
                  /\ pc' = "eval"
    /\ UNCHANGED <<mdp, agent, file, outcome, pi, Q, pi_new, steps, hist>>

\* policy_improvement, steps += 1, and the test of the loop of policy_iteration
ImproveRound ==
    /\ pc = "improve"
    /\ steps < MaxRounds
    /\ Q' = QTable(V)
    /\ pi_new' = Greedy(Q')
    /\ steps' = steps + 1
    /\ hist' = Append(hist, [pi |-> pi, V |-> V])
    /\ \/ /\ ArrayEqual(pi, pi_new')
          /\ pc' = "done"
          /\ UNCHANGED <<pi, V, sweeps>>
       \/ /\ ~ArrayEqual(pi, pi_new')
          /\ pi' = pi_new'
          /\ EnterEvaluation
    /\ UNCHANGED <<mdp, agent, file, outcome>>

\* ---------------------------------------------------------- the agent
\* update_agent, up to the call of policy_iteration
UpdateAgentAlways ==
    /\ pc = "idle"
    /\ self_pi' = ZerosPi
    /\ self_Q' = ZerosQ
    /\ pi' = ZerosPi
    /\ Q' = ZerosQ
    /\ steps' = 0
    /\ hist' = <<>>
    /\ EnterEvaluation
    /\ outcome' = "running"
    /\ UNCHANGED <<self_steps, policy_fitted, pi_new>>
    /\ UNCHANGED <<mdp, file>>

UpdateAgent ==
    /\ pc = "idle"
    /\ \/ /\ policy_fitted
          /\ outcome' = "already_fitted"
          /\ UNCHANGED <<agent, frame>>
       \/ /\ ~policy_fitted
          /\ self_pi' = ZerosPi
          /\ self_Q' = ZerosQ
          /\ pi' = ZerosPi
          /\ Q' = ZerosQ
          /\ steps' = 0
          /\ hist' = <<>>
          /\ EnterEvaluation
          /\ outcome' = "running"
          /\ UNCHANGED <<self_steps, policy_fitted, pi_new>>
    /\ UNCHANGED <<mdp, file>>

\* update_agent, from the return of policy_iteration
UpdateAgentReturnNoSteps ==
    /\ pc = "done"
    /\ outcome = "running"
    /\ self_Q' = Q
    /\ self_pi' = pi
    /\ policy_fitted' = TRUE
    /\ pc' = "idle"
    /\ outcome' = "fitted"
    /\ UNCHANGED <<mdp, file, self_steps, pi, V, sweeps, Q, pi_new, steps, hist>>

UpdateAgentReturn ==
    /\ pc = "done"
    /\ outcome = "running"
    /\ self_Q' = Q
    /\ self_pi' = pi
    /\ self_steps' = steps
    /\ policy_fitted' = TRUE
    /\ pc' = "idle"
    /\ outcome' = "fitted"
    /\ UNCHANGED <<mdp, file, pi, V, sweeps, Q, pi_new, steps, hist>>

SaveAlways ==
    /\ pc = "idle"
    /\ file' = self_pi
    /\ outcome' = "saved"
    /\ UNCHANGED <<mdp, agent, frame>>

Save ==
    /\ pc = "idle"
    /\ \/ /\ policy_fitted
          /\ file' = self_pi
          /\ outcome' = "saved"
       \/ /\ ~policy_fitted
          /\ file' = file
          /\ outcome' = "warning"
    /\ UNCHANGED <<mdp, agent, frame>>

Load ==
    /\ pc = "idle"
    /\ \/ /\ file = NoFile
          /\ outcome' = "FileNotFoundError"
          /\ UNCHANGED <<self_pi, policy_fitted>>
       \/ /\ file # NoFile
          /\ self_pi' = file
          /\ policy_fitted' = TRUE
          /\ outcome' = "loaded"
    /\ UNCHANGED <<mdp, self_Q, self_steps, file, frame>>

\* ------------------------------------------------------ specifications
\* what the file at self.filename may hold when the agent is constructed:
\* a policy array of length nS that an earlier save left there, or any other
\* array (one left by an agent of an environment with nS + 1 states, one
\* whose entries are not actions); __init__ does not look at the file and
\* np.load returns whatever array it holds
SavedFiles == Policies
ForeignFiles ==
    {[i \in 0 .. NS |-> IF i = NS THEN 1 ELSE 0], [s \in States |-> NA]}

\* the agent as constructed; update_agent calls policy_iteration without an
\* epsilon argument, so the default is the one in force
Init ==
    /\ T \in ValidTs \cup MalformedTs
    /\ R_sa \in EndRewards
    /\ gamma \in {Half, One}
    /\ epsilon = EpsDefault
    /\ self_pi = None
    /\ self_Q = None
    /\ self_steps = 0
    /\ policy_fitted = FALSE
    /\ file \in {NoFile} \cup SavedFiles \cup ForeignFiles
    /\ outcome = "none"
    /\ pc = "idle"
    /\ pi = None
    /\ V = None
    /\ sweeps = 0
    /\ Q = None
    /\ pi_new = None
    /\ steps = 0
    /\ hist = <<>>

Next ==
    \/ UpdateAgent
    \/ EvalSweep
    \/ ImproveRound
    \/ UpdateAgentReturn
    \/ Save
    \/ Load

Spec == Init /\ [][Next]_vars

\* policy_iteration(Q, pi, MDP, epsilon) called on its own: with the default
\* epsilon on 0/1 transition rows, and with a larger epsilon on rows with
\* probability 1/2.  On these inputs no sum of the code rounds.
InitPI ==
    /\ \/ T \in DetTs /\ R_sa \in Rewards /\ epsilon = EpsDefault
       \/ T \in ValidTs /\ R_sa \in EndRewards /\ epsilon = EpsCoarse
    /\ gamma = Half
    /\ self_pi = None
    /\ self_Q = None
    /\ self_steps = 0
    /\ policy_fitted = FALSE
    /\ file = NoFile
    /\ outcome = "none"
    /\ pc = "eval"
    /\ pi \in Policies
    /\ V = ZerosV
    /\ sweeps = 0
    /\ Q = ZerosQ
    /\ pi_new = None
    /\ steps = 0
    /\ hist = <<>>

NextPI ==
    \/ EvalSweep
    \/ ImproveRound

SpecPI == InitPI /\ [][NextPI]_vars

\* ----------------------------------------------------------- properties
\* every T[s,a,.] is a probability distribution
IsStochastic(t) == \A s \in States, a \in Actions : RowSum(t[s][a]) = TDen

\* gamma < 1
Discounting == gamma.num < gamma.den

\* x <= y
Leq(x, y) == ~Less(y, x)

\* the Bellman operator of the claims in real numbers,
\* B_pi(V)[s] = sum_{s'} T[s,pi[s],s'] * (R_sa[s,pi[s]] + gamma*V[s']),
\* summed over the common denominator before the one division
RECURSIVE BellmanSum(_, _, _, _)
BellmanSum(s, p, v, n) ==
    IF n < 0 THEN Zero
    ELSE Plus(BellmanSum(s, p, v, n - 1),
              MulBy(T[s][p[s]][n],
                    Plus(Real(R_sa[s][p[s]] * gamma.den), MulBy(gamma.num, v[n]))))

BellmanRef(p, v) ==
    [s \in States |-> DivBy(TDen * gamma.den, BellmanSum(s, p, v, NS - 1))]

\* the policy that round i of the running policy_iteration call produced
ImprovedAt(i) == IF i < Len(hist) THEN hist[i + 1].pi ELSE pi_new

ChangedRounds == {i \in 1 .. Len(hist) : ImprovedAt(i) # hist[i].pi}

\* C1 (as claimed): for a valid MDP with gamma < 1, policy_iteration runs at
\* most nA^nS evaluation+improvement rounds.
C1_RoundsWithinBound ==
    (IsStochastic(T) /\ Discounting) => steps <= NA ^ NS

\* C2, the states: policy_evaluation starts from V = 0; for a valid MDP
\* with gamma < 1 the loop is never still running after MaxSweeps passes
\* (its passes are its only steps, so it terminates); and the V it returns
\* has Bellman residual below epsilon at every state.
C2_EvaluationInv ==
    /\ (pc = "eval" /\ sweeps = 0) => V = ZerosV
    /\ (pc = "eval" /\ IsStochastic(T) /\ Discounting) =>
          (sweeps < MaxSweeps \/ Converged(Sweep(pi, V), V))
    /\ pc = "improve" =>
          \A s \in States : Below(AbsDiff(BellmanRef(pi, V)[s], V[s]), epsilon)

\* C2, the steps: a pass that continues replaces V, at every state, by the
\* Bellman update of the previous V (all states from the same snapshot).
C2_SynchronousStep ==
    (pc = "eval" /\ pc' = "eval") =>
        (sweeps' = sweeps + 1 /\ V' = BellmanRef(pi, V) /\ pi' = pi)

\* C2: for a valid MDP with gamma < 1 and epsilon > 0, policy_evaluation
\* starts from V = 0, every sweep is the synchronous Bellman update of the
\* previous V, the call terminates, and the returned V has residual below
\* epsilon.
C2_Evaluation ==
    /\ [](C2_EvaluationInv)
    /\ [][C2_SynchronousStep]_vars

C2_Witness ==
    /\ pc = "improve"
    /\ epsilon = EpsDefault
    /\ sweeps >= 20
    /\ \E s \in States : V[s] # Zero /\ BellmanRef(pi, V)[s] # V[s]
    /\ V[0] # V[1]

\* C3: after policy_improvement, pi_new[s] attains max_a Q[s,a] and no lower
\* action index attains it.
C3_LowestArgmax ==
    steps >= 1 =>
        \A s \in States :
            /\ \A a \in Actions : Leq(Q[s][a], Q[s][pi_new[s]])
            /\ \A a \in Actions : a < pi_new[s] => Less(Q[s][a], Q[s][pi_new[s]])

C3_Witness ==
    /\ steps >= 1
    /\ \E s \in States : Q[s][0] = Q[s][1] /\ Q[s][0] # Zero /\ pi_new[s] = 0
    /\ \E s \in States : pi_new[s] = 1

\* C4: policy_iteration returns exactly at the first round whose pi_new
\* equals the policy evaluated in that round; steps counts the rounds run,
\* is at least 1 and is 1 + the number of rounds that changed the policy;
\* the returned pi is greedy for the returned Q.
C4_ReturnAtFixedPoint ==
    /\ steps = Len(hist)
    /\ pc = "done" =>
          /\ steps >= 1
          /\ hist[steps].pi = pi
          /\ pi_new = pi
          /\ ChangedRounds = 1 .. (steps - 1)
          /\ steps = 1 + Cardinality(ChangedRounds)
          /\ \A s \in States, a \in Actions : Leq(Q[s][a], Q[s][pi[s]])
    /\ pc # "done" => ChangedRounds = 1 .. steps

C4_Witness ==
    /\ pc = "done"
    /\ steps = 3
    /\ pi # ZerosPi
    /\ epsilon = EpsDefault

\* C5 (as claimed): in every round the value function of the improved
\* policy is, at every state, at least that of the policy it replaced.
C5_MonotonicImprovement ==
    \A i \in 1 .. (Len(hist) - 1) :
        \A s \in States : Leq(hist[i].V[s], hist[i + 1].V[s])

\* C6: update_agent on a fitted agent changes neither pi, Q, steps nor the
\* flag and does not start policy_iteration.
C6_IdempotentFit ==
    [][(policy_fitted /\ UpdateAgent) =>
          (UNCHANGED agent /\ UNCHANGED frame /\ outcome' = "already_fitted")]_vars

C6_Witness ==
    /\ outcome = "already_fitted"
    /\ self_steps >= 2
    /\ self_Q = Q

\* C7 (as claimed): with gamma >= 1 the program raises instead of
\* evaluating, so no policy_evaluation call is still unconverged after
\* MaxSweeps passes.
C7_GammaRejected ==
    ~Discounting =>
        ~(pc = "eval" /\ sweeps = MaxSweeps /\ ~Converged(Sweep(pi, V), V))

\* C8 (as claimed): with a row of T that does not sum to 1, update_agent
\* raises before any round: no policy_iteration call runs and pi, Q, steps
\* stay as constructed.
C8_MalformedRejected ==
    ~IsStochastic(T) =>
        /\ pc = "idle"
        /\ self_Q = None
        /\ self_steps = 0
        /\ outcome # "running"

\* C9: save on an unfitted agent leaves the file and the agent as they are
\* and warns; save on a fitted agent writes pi to the file.
C9_SaveGated ==
    [][Save =>
          /\ UNCHANGED agent
          /\ IF policy_fitted
               THEN file' = self_pi /\ outcome' = "saved"
               ELSE file' = file /\ outcome' = "warning"]_vars

C9_Witness ==
    /\ outcome = "warning"
    /\ ~policy_fitted
    /\ file = NoFile
    /\ self_pi = None

\* C10 (as claimed), on a valid MDP with gamma < 1 and a file that, when
\* there is one, holds a policy array of length nS: whenever the fitted flag
\* is true, Q is set, steps >= 1 and pi has length nS.
C10_FittedMeansCompleted ==
    (IsStochastic(T) /\ Discounting /\ file \in {NoFile} \cup SavedFiles) =>
        (policy_fitted =>
            /\ self_Q # None
            /\ self_steps >= 1
            /\ DOMAIN self_pi = States)

\* C10 (amended): whenever the fitted flag is true, pi is set and is either
\* the policy a completed policy_iteration run of update_agent returned
\* (then Q is set, pi has length nS and steps >= 1) or the array load read
\* from the file; load restores neither Q nor steps, so when the flag was
\* set by load alone they are still None and 0.
C10_FittedByRunOrLoad ==
    policy_fitted =>
        /\ pc = "idle"
        /\ self_pi # None
        /\ \/ self_pi = file
           \/ /\ self_pi = pi
              /\ self_Q = Q
              /\ self_steps = steps
              /\ DOMAIN self_pi = States
        /\ \/ self_Q = None /\ self_steps = 0 /\ self_pi = file
           \/ /\ self_Q = Q
              /\ self_Q # None
              /\ self_steps = steps
              /\ steps >= 1
              /\ pi_new = pi
              /\ DOMAIN pi = States

\* load of a persisted policy of length nS on a fresh agent, then an
\* update_agent call that does nothing
C10_Witness ==
    /\ policy_fitted
    /\ self_Q = None
    /\ self_steps = 0
    /\ outcome = "already_fitted"
    /\ self_pi = file
    /\ DOMAIN self_pi = States
    /\ self_pi # ZerosPi

=============================================================================
